---- MODULE Spec2Model ----
(***************************************************************************)
(* Reservoir operation optimisation notebooks: the reservoir mass-balance  *)
(* simulator res_sim, the objective functions (reliability, SD_func,       *)
(* MSV_func) and the two hand-written genetic optimizers (gen_opt and the  *)
(* draft generational loop with non_dominated_sort / crowding_distance).   *)
(*                                                                         *)
(* Volumes are exact integers (the notebooks' data are whole megalitres);  *)
(* a mean over T values is kept as the pair <<sum, T>>.                    *)
(***************************************************************************)
EXTENDS Integers, Sequences, FiniteSets, TLC

\* ------------------------------------------------------------------ bounds
MaxT == 2        \* longest simulated horizon (number of time steps)
MaxVol == 2      \* largest inflow / evaporation / candidate release of a step
MaxCap == 2      \* largest reservoir capacity s_max
MaxEnv == 2      \* largest minimum environmental flow env_min
MaxN == 3        \* largest number of objective vectors handed to the sort
MaxObj == 2      \* largest objective value handed to the sort
NumWeeks == 2    \* weeks of the notebook's forecast the optimizers plan over
MaxPop == 3      \* largest population size pop_size
MaxGen == 2      \* largest number of generations max_generations
RegressionPop == 4 \* population size of the regression run without variation
MaxVariations == 1 \* most random variation events (pairs crossed, genes mutated) in a run
MaxFit == 2      \* largest population fit_func evaluates call by call

\* ------------------------------------------------- the notebooks' inputs
InflowData == <<15, 17, 19, 11, 9, 4, 3, 8>>
EvapData == <<1, 1, 2, 2, 2, 2, 2, 3>>
DemandData == <<13, 13, 17, 18, 20, 22, 25, 26>>
SMax == 150
SMin == 30
EnvMin == 2
S0 == 80
ReleaseMax == 30
GeneLow == 0
GeneHigh == 1

inflow == SubSeq(InflowData, 1, NumWeeks)
evap == SubSeq(EvapData, 1, NumWeeks)
s_min == SMin

\* Gene values of an initial population: np.random.uniform(0, 1), at its extremes
\* (release nothing, release the whole demand).
Genes == {GeneLow, GeneHigh}

VARIABLES
    pc,          \* position of the running cell / function
    T,           \* res_sim: T = len(inflow)
    s_max,       \* res_sim argument
    env_min,     \* res_sim argument
    t,           \* res_sim: loop index
    s,           \* res_sim: storage array, length T+1
    env,         \* res_sim: environmental flow array, length T
    spill,       \* res_sim: spill array, length T
    supply,      \* res_sim: the caller's supply array, overwritten in place
    candidate,   \* the supply array as it was passed in (never written)
    inflow_t,    \* inflow[t] read by the last executed iteration
    evap_t,      \* evap[t] read by the last executed iteration
    demand,      \* water demand series (a notebook global, argument of the objectives)
    result,      \* objective functions: name of the function called |-> value returned
    threshold,   \* MSV_func: its s_min argument
    objectives,  \* one objective vector <<obj0, obj1>> per candidate
    fronts,      \* non_dominated_sort: the list of fronts returned
    dom,         \* dominates: the last pair compared and the answers
    crowding,    \* crowding_distance: the pair (crowding_distances, sorted_indices)
    s_0,         \* initial storage (res_sim argument, a notebook global)
    pop_size,    \* optimizers: population size (a notebook global)
    max_generations, \* optimizers: the iteration budget
    gen,         \* optimizers: generations completed
    population,  \* optimizers: one row of T genes per candidate
    selected_parents, \* draft loop: indices chosen by the selection step
    best_solutions,   \* draft loop: one row per generation
    best_objectives,  \* draft loop: one objective vector per generation
    variations,  \* draft loop: random variation events so far (bounds the model)
    frames       \* fit_func: the evaluations under way, one frame of locals per candidate

simVars == <<T, s_max, env_min, t, s, env, spill, supply, candidate, inflow_t, evap_t>>
objVars == <<demand, result, threshold>>
sortVars == <<objectives, fronts, dom, crowding>>
draftVars == <<selected_parents, best_solutions, best_objectives, variations>>
optVars == <<s_0, pop_size, max_generations, gen, population, draftVars>>
vars == <<pc, simVars, objVars, sortVars, optVars, frames>>

\* ------------------------------------------------------------- helpers
SeqOf(S, n) == [1..n -> S]

Zeros(n) == [i \in 1..n |-> 0]

NoResult == [f \in {} |-> 0]

RECURSIVE SumSeq(_)
SumSeq(x) == IF Len(x) = 0 THEN 0 ELSE x[1] + SumSeq(Tail(x))

\* np.mean of a non-empty array, kept exact: the value is num / den.
Mean(x) == [num |-> SumSeq(x), den |-> Len(x)]

\* np.maximum(x, 0), element by element
Maximum0(x) == IF x >= 0 THEN x ELSE 0

\* np.max(x, 0) on a scalar x: the second positional argument is the axis, and the
\* maximum of a 0-d value along axis 0 is the value itself.
NpMaxAxis(x, axis) == x

\* The parts of the state a specification does not use stay at these values.
SimIdle ==
    /\ T = 0 /\ s_max = 0 /\ env_min = 0 /\ t = 0
    /\ s = <<>> /\ env = <<>> /\ spill = <<>> /\ supply = <<>> /\ candidate = <<>>
    /\ inflow_t = 0 /\ evap_t = 0

ObjIdle == demand = <<>> /\ result = NoResult /\ threshold = 0

SortIdle == objectives = <<>> /\ fronts = <<>> /\ dom = <<>> /\ crowding = <<>> /\ frames = <<>>

DraftIdle ==
    /\ selected_parents = <<>> /\ best_solutions = <<>> /\ best_objectives = <<>>
    /\ variations = 0

OptIdle ==
    /\ pop_size = 0 /\ max_generations = 0 /\ gen = 0
    /\ population = <<>>
    /\ DraftIdle

\* ---------------------------------------------------- res_sim, one step
\* "Environmental flow": the two consecutive ifs on env[t], which starts at env_min.
EnvFlow(a, e0) ==
    LET e1 == IF a <= 0 THEN 0 ELSE e0
    IN  IF e1 >= a THEN a ELSE e1

\* A release without the second if: the request is never cut to the water left.
SupplyFlowNoCut(b, sup) == IF b <= 0 THEN 0 ELSE sup

\* A release that ignores the request and hands out all the remaining water.
SupplyFlowAll(b, sup) == IF b <= 0 THEN 0 ELSE b

\* A release that keeps one unit back from every request it could meet in full.
SupplyFlowKeepBack(b, sup) ==
    IF b <= 0 THEN 0
    ELSE IF sup >= b THEN b
    ELSE IF sup > 0 THEN sup - 1 ELSE sup

\* "Supply": the two consecutive ifs on supply[t]; b = s[t]+inflow[t]-evap[t]-env[t].
SupplyFlow(b, sup) ==
    LET s1 == IF b <= 0 THEN 0 ELSE sup
    IN  IF s1 >= b THEN b ELSE s1

\* A spillway that, once open, lets the whole volume go.
SpillFlowAll(c, cap) == IF c > cap THEN c ELSE 0

\* A simulator without spillway: nothing is ever spilled.
SpillFlowNone(c, cap) == 0

\* "Spillage": spill[t] stays 0 unless c = b - supply[t] exceeds s_max.
SpillFlow(c, cap) == IF c > cap THEN c - cap ELSE 0

\* A loop body with the priorities swapped: the supply is served first and the
\* environmental flow gets what is left.
SimStepSupplyFirst(st, inf, ev, e0, sup, cap) ==
    LET a  == st + inf - ev
        su == SupplyFlow(a, sup)
        e  == EnvFlow(a - su, e0)
        sp == SpillFlow(a - e - su, cap)
    IN  [env |-> e, supply |-> su, spill |-> sp, s |-> a - e - sp - su]

\* A loop body whose storage update forgets the spill.
SimStepSpillKept(st, inf, ev, e0, sup, cap) ==
    LET a  == st + inf - ev
        e  == EnvFlow(a, e0)
        su == SupplyFlow(a - e, sup)
        sp == SpillFlow(a - e - su, cap)
    IN  [env |-> e, supply |-> su, spill |-> sp, s |-> a - e - su]

\* A loop body whose storage update leaves the evaporation out.
SimStepNoEvap(st, inf, ev, e0, sup, cap) ==
    LET a  == st + inf - ev
        e  == EnvFlow(a, e0)
        su == SupplyFlow(st + inf - ev - e, sup)
        sp == SpillFlow(st + inf - ev - e - su, cap)
    IN  [env |-> e, supply |-> su, spill |-> sp,
         s |-> st + inf - e - sp - su]

\* One iteration of the for loop, from storage st.
SimStep(st, inf, ev, e0, sup, cap) ==
    LET a  == st + inf - ev
        e  == EnvFlow(a, e0)
        su == SupplyFlow(st + inf - ev - e, sup)
        sp == SpillFlow(st + inf - ev - e - su, cap)
    IN  [env |-> e, supply |-> su, spill |-> sp,
         s |-> st + inf - ev - e - sp - su]

\* --------------------------------------------- res_sim as a state machine
SimInit ==
    /\ pc = "sim"
    /\ T \in 1..MaxT
    /\ s_max \in 1..MaxCap
    /\ env_min \in 0..MaxEnv
    /\ t = 0
    /\ s_0 \in 0..s_max
    /\ s = [i \in 1..T+1 |-> IF i = 1 THEN s_0 ELSE 0]
    /\ env = [i \in 1..T |-> env_min]
    /\ spill = Zeros(T)
    /\ supply \in SeqOf(0..MaxVol, T)
    /\ candidate = supply
    /\ inflow_t = 0
    /\ evap_t = 0
    /\ ObjIdle
    /\ SortIdle
    /\ OptIdle

\* for t in np.arange(T): body. Arrays are 1-based here: index t+1 is the code's t.
SimLoop ==
    /\ pc = "sim"
    /\ t < T
    /\ \E inf \in 0..MaxVol, ev \in 0..MaxVol :
        LET r == SimStep(s[t+1], inf, ev, env[t+1], supply[t+1], s_max)
        IN  /\ inflow_t' = inf
            /\ evap_t' = ev
            /\ env' = [env EXCEPT ![t+1] = r.env]
            /\ supply' = [supply EXCEPT ![t+1] = r.supply]
            /\ spill' = [spill EXCEPT ![t+1] = r.spill]
            /\ s' = [s EXCEPT ![t+2] = r.s]
    /\ t' = t + 1
    /\ UNCHANGED <<frames, pc, T, s_max, env_min, candidate, objVars, sortVars, optVars>>

\* return s,env,spill,supply
SimReturn ==
    /\ pc = "sim"
    /\ t = T
    /\ pc' = "sim_done"
    /\ UNCHANGED <<frames, simVars, objVars, sortVars, optVars>>

\* --------------------------------------------------- objective functions
\* reliability(supply, demand): strict comparison the wrong way round would count
\* the weeks in which the demand is met exactly as failures.
reliabilityStrict(sup, dem) ==
    Mean([i \in 1..Len(sup) |-> IF sup[i] > dem[i] THEN 0 ELSE 1])

\* reliability(supply, demand), notebook 2
reliability(sup, dem) ==
    Mean([i \in 1..Len(sup) |-> IF sup[i] >= dem[i] THEN 0 ELSE 1])

\* SD_func(supply, demand), notebook 2: the per-step loop
\*     sd[t] = np.max(demand[t] - supply[t], 0)**2
SD_func_loop(sup, dem) ==
    Mean([i \in 1..Len(dem) |->
            NpMaxAxis(dem[i] - sup[i], 0) * NpMaxAxis(dem[i] - sup[i], 0)])

\* SD_func(supply, demand), draft notebook: vectorised
\*     sd = np.maximum(demand - supply, 0) ** 2
SD_func(sup, dem) ==
    Mean([i \in 1..Len(dem) |->
            Maximum0(dem[i] - sup[i]) * Maximum0(dem[i] - sup[i])])

\* The objective functions applied to arbitrary series of equal length.
ObjInit ==
    /\ pc = "obj"
    /\ T \in 1..MaxT
    /\ supply \in SeqOf(0..MaxVol, T)
    /\ demand \in SeqOf(0..MaxVol, T)
    /\ candidate = supply
    /\ result = NoResult /\ threshold = 0
    /\ s_max = 0 /\ env_min = 0 /\ t = 0
    /\ s = <<>> /\ env = <<>> /\ spill = <<>>
    /\ inflow_t = 0 /\ evap_t = 0
    /\ SortIdle
    /\ s_0 = 0
    /\ OptIdle

Call(f, v) ==
    /\ pc = "obj"
    /\ f \notin DOMAIN result
    /\ result' = result @@ (f :> v)
    /\ UNCHANGED <<frames, pc, simVars, demand, threshold, sortVars, optVars>>

CallReliability == Call("reliability", reliability(supply, demand))

CallSDLoop == Call("SD_func_loop", SD_func_loop(supply, demand))

CallSDVec == Call("SD_func", SD_func(supply, demand))

ObjNext == CallReliability \/ CallSDLoop \/ CallSDVec

SpecObj == ObjInit /\ [][ObjNext]_vars

Init == SimInit

Next == SimLoop \/ SimReturn

Spec == Init /\ [][Next]_vars

\* ------------------------------------------- dominance and the front sort
\* A comparison that forgets the strict part: np.all(obj1 <= obj2) alone.
dominatesWeak(obj1, obj2) == \A k \in DOMAIN obj1 : obj1[k] <= obj2[k]

\* dominates(obj1, obj2): np.all(obj1 <= obj2) and np.any(obj1 < obj2)
dominates(obj1, obj2) ==
    /\ \A k \in DOMAIN obj1 : obj1[k] <= obj2[k]
    /\ \E k \in DOMAIN obj1 : obj1[k] < obj2[k]

\* The members of a set of indices in increasing order (the order in which the
\* loops over range(...) and np.where meet them).
RECURSIVE Ascending(_)
Ascending(S) ==
    IF S = {} THEN <<>>
    ELSE LET m == CHOOSE a \in S : \A b \in S : a <= b
         IN  <<m>> \o Ascending(S \ {m})

\* The double loop "for i ... for j in range(i+1, ...)": the pair i < j takes the
\* if branch when i dominates j, the elif branch when it does not and j dominates i.
\* Candidates are numbered from 1 here (the code's index + 1).
TakesIf(obj, i, j) == dominates(obj[i], obj[j])

TakesElif(obj, i, j) == ~dominates(obj[i], obj[j]) /\ dominates(obj[j], obj[i])

\* A double loop whose elif branch does not count: a candidate dominated by a
\* later one keeps the count 0.
domination_countIfOnly(obj) ==
    [k \in 1..Len(obj) |-> Cardinality({i \in 1..(k-1) : TakesIf(obj, i, k)})]

\* domination_count after the double loop
domination_count(obj) ==
    [k \in 1..Len(obj) |->
        Cardinality({i \in 1..(k-1) : TakesIf(obj, i, k)})
      + Cardinality({j \in (k+1)..Len(obj) : TakesElif(obj, k, j)})]

\* A double loop whose elif branch was left out: only "i dominates j", i < j, is
\* recorded.
dominated_solutionsIfOnly(obj) ==
    [k \in 1..Len(obj) |-> Ascending({j \in (k+1)..Len(obj) : TakesIf(obj, k, j)})]

\* dominated_solutions after the double loop: the lists in the order of the appends
dominated_solutions(obj) ==
    [k \in 1..Len(obj) |->
        Ascending({i \in 1..(k-1) : TakesElif(obj, i, k)})
     \o Ascending({j \in (k+1)..Len(obj) : TakesIf(obj, k, j)})]

\* The j's met by "for i in current_front: for j in dominated_solutions[i]".
RECURSIVE Visited(_, _)
Visited(front, ds) ==
    IF front = <<>> THEN <<>> ELSE ds[Head(front)] \o Visited(Tail(front), ds)

\* domination_count[j] -= 1; if domination_count[j] == 0: next_front.append(j)
RECURSIVE Decrement(_, _, _)
Decrement(js, count, next) ==
    IF js = <<>> THEN [count |-> count, next |-> next]
    ELSE LET j == Head(js)
             c == [count EXCEPT ![j] = @ - 1]
         IN  Decrement(Tail(js), c, IF c[j] = 0 THEN Append(next, j) ELSE next)

\* while len(current_front) > 0: fronts.append(current_front); ...
RECURSIVE Peel(_, _, _, _)
Peel(current, count, ds, fr) ==
    IF Len(current) = 0 THEN fr
    ELSE LET r == Decrement(Visited(current, ds), count, <<>>)
         IN  Peel(r.next, r.count, ds, Append(fr, current))

\* non_dominated_sort(objectives)
non_dominated_sort(obj) ==
    LET count == domination_count(obj)
    IN  Peel(Ascending({k \in 1..Len(obj) : count[k] = 0}), count,
             dominated_solutions(obj), <<>>)

\* ------------------------------------------------------ crowding distance
\* A float64 that may be infinite or NaN: finite values are the exact num / den.
XFin(n, d) == [kind |-> "fin", num |-> n, den |-> d]

XInf == [kind |-> "inf", num |-> 0, den |-> 1]

XNaN == [kind |-> "nan", num |-> 0, den |-> 1]

\* gap / range on float64 scalars, gap >= 0 and range >= 0 (the front is sorted):
\* a zero range gives inf, or NaN for 0 / 0, with a RuntimeWarning and no exception.
XDiv(gap, range) ==
    IF range # 0 THEN XFin(gap, range)
    ELSE IF gap = 0 THEN XNaN ELSE XInf

\* a + b
XAdd(a, b) ==
    IF a.kind = "nan" \/ b.kind = "nan" THEN XNaN
    ELSE IF a.kind = "inf" \/ b.kind = "inf" THEN XInf
    ELSE XFin(a.num * b.den + b.num * a.den, a.den * b.den)

\* -a < -b, in the order np.argsort uses (NaN last)
XNegLess(a, b) ==
    IF a.kind = "nan" THEN FALSE
    ELSE IF b.kind = "nan" THEN TRUE
    ELSE IF a.kind = "inf" THEN b.kind # "inf"
    ELSE IF b.kind = "inf" THEN FALSE
    ELSE a.num * b.den > b.num * a.den

\* np.argsort of n keys, less[i][j] saying that key i sorts before key j: the
\* permutation that lists the positions in sorted order. Equal keys keep their
\* order (arrays this short are sorted by insertion).
ArgSort(n, less) ==
    LET Precedes(j, i) == less[j][i] \/ (~less[i][j] /\ j < i)
    IN  [r \in 1..n |->
            CHOOSE i \in 1..n : Cardinality({j \in 1..n : Precedes(j, i)}) = r - 1]

\* a[perm]
Take(a, perm) == [r \in 1..Len(perm) |-> a[perm[r]]]

\* The body of one pass of "for obj_index in range(num_objectives)" once
\* sorted_indices has been reassigned to idx: both ends get inf, every interior
\* member gets the gap between its neighbours over the range of the objective.
CrowdingSum(obj, d0, idx, k) ==
    LET n == Len(obj)
        ends == [d0 EXCEPT ![idx[1]] = XInf, ![idx[n]] = XInf]
        contribution(r) == XDiv(obj[idx[r+1]][k] - obj[idx[r-1]][k],
                                obj[idx[n]][k] - obj[idx[1]][k])
        interior(i) == \E r \in 2..(n-1) : idx[r] = i
        pos(i) == CHOOSE r \in 2..(n-1) : idx[r] = i
    IN  [d |-> [i \in 1..n |-> IF interior(i)
                                THEN XAdd(ends[i], contribution(pos(i)))
                                ELSE ends[i]],
         idx |-> idx]

\* One pass of "for obj_index in range(num_objectives)" of crowding_distance, from
\* the state st = [d |-> crowding_distances, idx |-> sorted_indices]. The order
\* "less" of the keys is bound once and then used by the sort.
CrowdingPass(obj, st, k) ==
    LET n == Len(obj)
        key(r) == obj[st.idx[r]][k]
    IN  CHOOSE out \in {CrowdingSum(obj, st.d, Take(st.idx, ArgSort(n, less)), k) :
                          less \in {[i \in 1..n |-> [j \in 1..n |-> key(i) < key(j)]]}} :
            TRUE

\* crowding_distance(objectives) for the two objectives: the pair
\* (crowding_distances, sorted_indices)
crowding_distance(obj) ==
    LET n == Len(obj)
        st0 == [d |-> [i \in 1..n |-> XFin(0, 1)], idx |-> [i \in 1..n |-> i]]
    IN  CHOOSE out \in {CrowdingPass(obj, st1, 2) : st1 \in {CrowdingPass(obj, st0, 1)}} :
            TRUE

\* -------------------------------------- the sort and crowding functions, called
ObjVectors == (0..MaxObj) \X (0..MaxObj)

\* The sort and the dominance test applied to arbitrary objective vectors.
SortInit ==
    /\ pc = "sort"
    /\ \E n \in 1..MaxN : objectives \in SeqOf(ObjVectors, n)
    /\ fronts = <<>>
    /\ dom = <<>>
    /\ crowding = <<>> /\ frames = <<>>
    /\ SimIdle
    /\ ObjIdle
    /\ s_0 = 0
    /\ OptIdle

CallSort ==
    /\ pc = "sort"
    /\ fronts' = non_dominated_sort(objectives)
    /\ pc' = "sort_done"
    /\ UNCHANGED <<frames, simVars, objVars, objectives, dom, crowding, optVars>>

CallDominates ==
    /\ pc = "sort"
    /\ \E i \in 1..Len(objectives), j \in 1..Len(objectives) :
        dom' = [a |-> objectives[i], b |-> objectives[j],
                ab |-> dominates(objectives[i], objectives[j]),
                ba |-> dominates(objectives[j], objectives[i]),
                aa |-> dominates(objectives[i], objectives[i])]
    /\ pc' = "dom_done"
    /\ UNCHANGED <<frames, simVars, objVars, objectives, fronts, crowding, optVars>>

\* crowding_distance(objectives) on the whole array
CallCrowding ==
    /\ pc = "sort"
    /\ crowding' = crowding_distance(objectives)
    /\ pc' = "crowding_done"
    /\ UNCHANGED <<frames, simVars, objVars, objectives, fronts, dom, optVars>>

SortNext == CallSort \/ CallDominates

\* crowding_distance applied to arbitrary objective vectors.
SpecCrowding == SortInit /\ [][CallCrowding]_vars

SpecSort == SortInit /\ [][SortNext]_vars

\* ------------------------------------------------ res_sim as a function
RECURSIVE SimFold(_, _, _, _, _, _)
SimFold(acc, inf, ev, cap, e0, sup) ==
    LET k == Len(acc.env) + 1
    IN  IF k > Len(inf) THEN acc
        ELSE LET r == SimStep(acc.s[k], inf[k], ev[k], e0, sup[k], cap)
             IN  SimFold([s |-> Append(acc.s, r.s), env |-> Append(acc.env, r.env),
                          spill |-> Append(acc.spill, r.spill),
                          supply |-> Append(acc.supply, r.supply)],
                         inf, ev, cap, e0, sup)

\* res_sim(inflow, evap, demand, s_0, s_max, env_min, supply): the four arrays
\* returned. The demand argument is not read.
res_sim(inf, ev, dem, st0, cap, e0, sup) ==
    SimFold([s |-> <<st0>>, env |-> <<>>, spill |-> <<>>, supply |-> <<>>],
            inf, ev, cap, e0, sup)

Abs(v) == IF v < 0 THEN -v ELSE v

\* MSV_func(s, s_min), draft notebook: np.mean(np.abs(np.maximum(s_min - s, 0)))
MSV_func(st, smin) == Mean([i \in 1..Len(st) |-> Abs(Maximum0(smin - st[i]))])

\* s[:-1]
AllButLast(x) == SubSeq(x, 1, Len(x) - 1)

\* np.max([a, b])
NpMaxPair(a, b) == IF a >= b THEN a ELSE b

\* MSV_func(s, s_min), notebook 2: the per-step loop
\*     msv[t] = np.abs(np.max([s_min - s[t], 0]))
MSV_func_loop(st, smin) == Mean([i \in 1..Len(st) |-> Abs(NpMaxPair(smin - st[i], 0))])

\* The storage samples the two optimizers hand to MSV_func for one trajectory st:
\* fit_func passes s[:-1], auto_optim passes s.
MSVInit ==
    /\ pc = "msv"
    /\ T \in 1..MaxT
    /\ s \in SeqOf(0..MaxCap, T + 1)
    /\ threshold \in 0..MaxCap
    /\ result = NoResult
    /\ demand = <<>>
    /\ s_max = 0 /\ env_min = 0 /\ t = 0
    /\ env = <<>> /\ spill = <<>> /\ supply = <<>> /\ candidate = <<>>
    /\ inflow_t = 0 /\ evap_t = 0
    /\ SortIdle
    /\ s_0 = 0
    /\ OptIdle

CallMSV(f, v) ==
    /\ pc = "msv"
    /\ f \notin DOMAIN result
    /\ result' = result @@ (f :> v)
    /\ UNCHANGED <<frames, pc, simVars, demand, threshold, sortVars, optVars>>

\* objectives[i, 0] = MSV_func(s[:-1], s_min) in fit_func
CallMSVFitFunc == CallMSV("fit_func", MSV_func(AllButLast(s), threshold))

\* MSV = MSV_func(s, s_min) in auto_optim
CallMSVAutoOptim == CallMSV("auto_optim", MSV_func_loop(s, threshold))

MSVNext == CallMSVFitFunc \/ CallMSVAutoOptim

SpecMSV == MSVInit /\ [][MSVNext]_vars

\* ------------------------------------------------- auto_optim (notebook 2)
\* Weekly releases the optimizer may propose for week i: the ends of Real(0, 30)
\* and the week's demand.
Releases(i) == <<0, DemandData[i], ReleaseMax>>

\* auto_optim(vars) up to the loop of res_sim: supply = vars is the caller's list,
\* the other arguments are the notebook globals with the whole 8-week forecast.
AutoInit ==
    /\ pc = "auto_optim"
    /\ T = Len(InflowData)
    /\ demand = DemandData
    /\ s_max = SMax
    /\ env_min = EnvMin
    /\ s_0 = S0
    /\ t = 0
    /\ s = [i \in 1..T+1 |-> IF i = 1 THEN s_0 ELSE 0]
    /\ env = [i \in 1..T |-> env_min]
    /\ spill = Zeros(T)
    /\ \E pick \in SeqOf(1..3, Len(InflowData)) :
           supply = [i \in 1..Len(InflowData) |-> Releases(i)[pick[i]]]
    /\ candidate = supply
    /\ inflow_t = 0
    /\ evap_t = 0
    /\ result = NoResult /\ threshold = s_min
    /\ SortIdle
    /\ OptIdle

\* One iteration of res_sim's loop on the forecast.
AutoSimLoop ==
    /\ pc = "auto_optim"
    /\ t < T
    /\ LET r == SimStep(s[t+1], InflowData[t+1], EvapData[t+1], env[t+1],
                        supply[t+1], s_max)
       IN  /\ inflow_t' = InflowData[t+1]
           /\ evap_t' = EvapData[t+1]
           /\ env' = [env EXCEPT ![t+1] = r.env]
           /\ supply' = [supply EXCEPT ![t+1] = r.supply]
           /\ spill' = [spill EXCEPT ![t+1] = r.spill]
           /\ s' = [s EXCEPT ![t+2] = r.s]
    /\ t' = t + 1
    /\ UNCHANGED <<frames, pc, T, s_max, env_min, candidate, objVars, sortVars, optVars>>

\* The objective functions on what res_sim returned: REL and SD of the first
\* auto_optim, MSV of the second.
AutoObjectives ==
    /\ pc = "auto_optim"
    /\ t = T
    /\ result' = [REL |-> reliability(supply, demand),
                  SD |-> SD_func_loop(supply, demand),
                  MSV |-> MSV_func_loop(s, threshold)]
    /\ pc' = "auto_done"
    /\ UNCHANGED <<frames, simVars, demand, threshold, sortVars, optVars>>

AutoNext == AutoSimLoop \/ AutoObjectives

SpecAutoOptim == AutoInit /\ [][AutoNext]_vars

\* ------------------------------------------------------- gen_opt (draft 1)
\* fit_func, one candidate: supply = population[i]*demand, res_sim, then the two
\* objectives. Both are means over the same T values; an objective is kept as the
\* sum (the mean times T), which leaves every comparison between candidates as it is.
Evaluate(genes) ==
    LET r == res_sim(inflow, evap, demand, s_0, s_max, env_min,
                     [i \in 1..Len(demand) |-> genes[i] * demand[i]])
    IN  <<MSV_func(AllButLast(r.s), s_min).num, SD_func(r.supply, demand).num>>

\* fit_func(pop_size, population): rows 0..pop_size-1 are evaluated
fit_func(n, pop) == [i \in 1..n |-> Evaluate(pop[i])]

\* The candidates whose count is at least v
WhereAtLeast(count, v) == Ascending({k \in DOMAIN count : count[k] >= v})

\* np.where(domination_count == v)[0]
Where(count, v) == Ascending({k \in DOMAIN count : count[k] = v})

\* int(num_genes * crossover_ratio) for crossover_ratio = quarter/4
CrossoverPoint(num_genes, quarter) == (num_genes * quarter) \div 4

\* A splice that returns the second sequence whole.
SpliceSecondOnly(a, b, point) == b

\* np.append(a[:point], b[point:])
Splice(a, b, point) == SubSeq(a, 1, point) \o SubSeq(b, point + 1, Len(b))

\* crossover(parent_1, parent_2): the two parents, then for each of the ratios
\* 0.25, 0.5, 0.75 the two children of a single-point crossover.
RECURSIVE Children(_, _, _)
Children(parent_1, parent_2, quarter) ==
    IF quarter > 3 THEN <<>>
    ELSE LET point == CrossoverPoint(Len(parent_1), quarter)
         IN  <<Splice(parent_1, parent_2, point), Splice(parent_2, parent_1, point)>>
             \o Children(parent_1, parent_2, quarter + 1)

crossover(parent_1, parent_2) == <<parent_1, parent_2>> \o Children(parent_1, parent_2, 1)

\* The notebook globals the optimizers read, over the first NumWeeks weeks.
Globals ==
    /\ T = Len(inflow)
    /\ demand = SubSeq(DemandData, 1, NumWeeks)
    /\ s_max = SMax
    /\ env_min = EnvMin
    /\ s_0 \in {S0, s_min}

\* gen_opt(max_generations) up to the loop
GenOptInit ==
    /\ pc = "gen_opt"
    /\ Globals
    /\ pop_size \in 2..MaxPop
    /\ max_generations \in 1..MaxGen
    /\ gen = 0
    /\ population \in SeqOf(SeqOf(Genes, NumWeeks), pop_size)
    /\ objectives = <<>>
    /\ t = 0 /\ s = <<>> /\ env = <<>> /\ spill = <<>> /\ supply = <<>>
    /\ candidate = <<>> /\ inflow_t = 0 /\ evap_t = 0
    /\ result = NoResult /\ threshold = 0 /\ fronts = <<>> /\ dom = <<>>
    /\ crowding = <<>> /\ frames = <<>>
    /\ DraftIdle

\* parents_selection can index its two np.where results
HasParents(obj) ==
    LET count == domination_count(obj)
    IN  Where(count, 0) # <<>> /\ Where(count, 1) # <<>>

\* One pass of "for gen in range(max_generations)": fit_func, parents_selection,
\* crossover.
GenOptGeneration ==
    /\ pc = "gen_opt"
    /\ gen < max_generations
    /\ pop_size <= Len(population)
    /\ LET obj == fit_func(pop_size, population)
           count == domination_count(obj)
       IN  /\ HasParents(obj)
           /\ objectives' = obj
           /\ population' = crossover(population[Where(count, 0)[1]],
                                      population[Where(count, 1)[1]])
    /\ gen' = gen + 1
    /\ UNCHANGED <<frames, pc, simVars, objVars, fronts, dom, crowding, s_0, pop_size, max_generations,
                   draftVars>>

\* The same pass ending in an IndexError: population[i] in fit_func when the
\* population has fewer than pop_size rows, or [0][0] on an empty np.where result
\* in parents_selection.
GenOptIndexError ==
    /\ pc = "gen_opt"
    /\ gen < max_generations
    /\ \/ pop_size > Len(population)
       \/ ~HasParents(fit_func(pop_size, population))
    /\ objectives' = IF pop_size > Len(population) THEN objectives
                      ELSE fit_func(pop_size, population)
    /\ pc' = "IndexError"
    /\ UNCHANGED <<frames, simVars, objVars, fronts, dom, crowding, optVars>>

\* return population, objectives
GenOptReturn ==
    /\ pc = "gen_opt"
    /\ gen = max_generations
    /\ pc' = "returned"
    /\ UNCHANGED <<frames, simVars, objVars, sortVars, optVars>>

GenOptNext == GenOptGeneration \/ GenOptIndexError \/ GenOptReturn

SpecGenOpt == GenOptInit /\ [][GenOptNext]_vars

\* ------------------------------------- res_sim called again on its own result
\* Initial storages of the runs: empty, at the minimum, the notebook's, full.
Storages == {0, SMin, S0, SMax}

\* pareto_interac about to call res_sim on a solution of the optimizer (releases
\* between 0 and ReleaseMax), with the notebook's forecast.
RerunInit ==
    /\ pc = "rerun"
    /\ T = Len(InflowData)
    /\ demand = DemandData
    /\ s_max = SMax
    /\ env_min = EnvMin
    /\ s_0 \in Storages
    /\ t = 0
    /\ s = <<>> /\ env = <<>> /\ spill = <<>>
    /\ \E pick \in SeqOf(1..3, Len(InflowData)) :
           supply = [i \in 1..Len(InflowData) |-> Releases(i)[pick[i]]]
    /\ candidate = supply
    /\ inflow_t = 0
    /\ evap_t = 0
    /\ result = NoResult /\ threshold = 0
    /\ SortIdle
    /\ OptIdle

\* s,env,spill,supply = res_sim(..., solution): the solution array is overwritten
\* in place with the realized supply.
RerunFirst ==
    /\ pc = "rerun"
    /\ LET r == res_sim(InflowData, EvapData, demand, s_0, s_max, env_min, supply)
       IN  /\ s' = r.s /\ env' = r.env /\ spill' = r.spill
           /\ supply' = r.supply
    /\ t' = T
    /\ pc' = "rerun_again"
    /\ UNCHANGED <<frames, T, s_max, env_min, candidate, inflow_t, evap_t, objVars,
                   sortVars, optVars>>

\* The same call made again on the same solution, which now holds the realized
\* supply: candidate is the array as this call receives it, result what it returns.
RerunSecond ==
    /\ pc = "rerun_again"
    /\ candidate' = supply
    /\ LET r == res_sim(InflowData, EvapData, demand, s_0, s_max, env_min, supply)
       IN  /\ result' = ("res_sim" :> r)
           /\ supply' = r.supply
    /\ pc' = "rerun_done"
    /\ UNCHANGED <<frames, T, s_max, env_min, t, s, env, spill, inflow_t, evap_t,
                   demand, threshold, sortVars, optVars>>

RerunNext == RerunFirst \/ RerunSecond

SpecRerun == RerunInit /\ [][RerunNext]_vars

\* ------------------------------------------------ fit_func, call by call
\* fit_func(pop_size, population) as a state machine: one frame of locals per
\* candidate (the arrays of its res_sim call), the candidates started in any order
\* and their steps interleaved; objectives, population and the globals are shared.
IdleFrame == [stage |-> "idle", t |-> 0, s |-> <<>>, env |-> <<>>, spill |-> <<>>,
              supply |-> <<>>]

\* A supply array taken over from a call already under way instead of a new one.
FrameSupplyShared(pop, i, fs) ==
    IF \E j \in 1..Len(fs) : fs[j].stage # "idle"
    THEN fs[CHOOSE j \in 1..Len(fs) : fs[j].stage # "idle"].supply
    ELSE [k \in 1..Len(demand) |-> pop[i][k] * demand[k]]

\* "supply = population[i]*demand": a new array, whatever the frames fs hold
FrameSupply(pop, i, fs) == [k \in 1..Len(demand) |-> pop[i][k] * demand[k]]

\* fit_func up to its loop: objectives = np.zeros((pop_size, 2))
FitInit ==
    /\ pc = "fit_func"
    /\ Globals
    /\ pop_size \in 1..MaxFit
    /\ population \in SeqOf(SeqOf(Genes, NumWeeks), pop_size)
    /\ objectives = [i \in 1..pop_size |-> <<0, 0>>]
    /\ frames = [i \in 1..pop_size |-> IdleFrame]
    /\ max_generations = 0 /\ gen = 0
    /\ t = 0 /\ s = <<>> /\ env = <<>> /\ spill = <<>> /\ supply = <<>>
    /\ candidate = <<>> /\ inflow_t = 0 /\ evap_t = 0
    /\ result = NoResult /\ threshold = 0 /\ fronts = <<>> /\ dom = <<>>
    /\ crowding = <<>>
    /\ DraftIdle

\* The evaluation of candidate i begins: its supply array is built and res_sim
\* declares its output arrays.
FitStart ==
    /\ pc = "fit_func"
    /\ \E i \in 1..pop_size :
         /\ frames[i].stage = "idle"
         /\ frames' = [frames EXCEPT ![i] =
                [stage |-> "res_sim", t |-> 0,
                 s |-> [k \in 1..T+1 |-> IF k = 1 THEN s_0 ELSE 0],
                 env |-> [k \in 1..T |-> env_min],
                 spill |-> Zeros(T),
                 supply |-> FrameSupply(population, i, frames)]]
    /\ UNCHANGED <<pc, simVars, objVars, sortVars, optVars>>

\* One pass of the loop of res_sim in the call for candidate i
FitSimLoop ==
    /\ pc = "fit_func"
    /\ \E i \in 1..pop_size :
         LET f == frames[i]
             r == SimStep(f.s[f.t+1], inflow[f.t+1], evap[f.t+1], f.env[f.t+1],
                          f.supply[f.t+1], s_max)
         IN  /\ f.stage = "res_sim"
             /\ f.t < T
             /\ frames' = [frames EXCEPT ![i] =
                    [stage |-> "res_sim", t |-> f.t + 1,
                     s |-> [f.s EXCEPT ![f.t+2] = r.s],
                     env |-> [f.env EXCEPT ![f.t+1] = r.env],
                     spill |-> [f.spill EXCEPT ![f.t+1] = r.spill],
                     supply |-> [f.supply EXCEPT ![f.t+1] = r.supply]]]
    /\ UNCHANGED <<pc, simVars, objVars, sortVars, optVars>>

\* res_sim has returned for candidate i: objectives[i, 0] and objectives[i, 1]
FitStore ==
    /\ pc = "fit_func"
    /\ \E i \in 1..pop_size :
         LET f == frames[i]
         IN  /\ f.stage = "res_sim"
             /\ f.t = T
             /\ objectives' = [objectives EXCEPT ![i] =
                    <<MSV_func(AllButLast(f.s), s_min).num,
                      SD_func(f.supply, demand).num>>]
             /\ frames' = [frames EXCEPT ![i].stage = "stored"]
    /\ UNCHANGED <<pc, simVars, objVars, fronts, dom, crowding, optVars>>

\* return objectives
FitReturn ==
    /\ pc = "fit_func"
    /\ \A i \in 1..pop_size : frames[i].stage = "stored"
    /\ pc' = "fit_done"
    /\ UNCHANGED <<frames, simVars, objVars, sortVars, optVars>>

FitNext == FitStart \/ FitSimLoop \/ FitStore \/ FitReturn

SpecFitFunc == FitInit /\ [][FitNext]_vars

\* ------------------------------------------------------ draft generational loop
\* Values np.random.uniform(0, s_max) can return: the two ends of the gene range
\* and one value above it.
MutationDraws == {GeneLow, GeneHigh, SMax - 1}

\* A whole-front loop that puts each front before the ones already taken.
RECURSIVE WholeFrontsPrepend(_, _, _, _)
WholeFrontsPrepend(fr, n, front_index, selected) ==
    IF front_index < Len(fr) /\ Len(selected) + Len(fr[front_index + 1]) <= n
    THEN WholeFrontsPrepend(fr, n, front_index + 1, fr[front_index + 1] \o selected)
    ELSE [selected_parents |-> selected, front_index |-> front_index]

\* "while front_index < len(fronts) and len(selected_parents) +
\* len(fronts[front_index]) <= pop_size", front_index counted from 0 as in the code
RECURSIVE WholeFronts(_, _, _, _)
WholeFronts(fr, n, front_index, selected) ==
    IF front_index < Len(fr) /\ Len(selected) + Len(fr[front_index + 1]) <= n
    THEN WholeFronts(fr, n, front_index + 1, selected \o fr[front_index + 1])
    ELSE [selected_parents |-> selected, front_index |-> front_index]

\* "Fill remaining spaces using crowding distance": the members of
\* fronts[front_index - 1] by decreasing crowding distance, cut to the free places.
CrowdingFill(obj, fr, n, st) ==
    LET last == IF st.front_index = 0 THEN Len(fr) ELSE st.front_index
        front == fr[last]
        m == Len(front)
        cd == crowding_distance(Take(obj, front))
        less == [i \in 1..m |-> [j \in 1..m |-> XNegLess(cd.d[i], cd.d[j])]]
        sorted_indices == Take(cd.idx, ArgSort(m, less))
        free == n - Len(st.selected_parents)
    IN  [r \in 1..(IF free < m THEN free ELSE m) |-> front[sorted_indices[r]]]

\* "crowding_distances, sorted_indices = crowding_distance(objectives[fronts[
\* front_index - 1]])" as the selection step leaves them
LastCrowding(obj, fr, n) ==
    LET st == WholeFronts(fr, n, 0, <<>>)
        last == IF st.front_index = 0 THEN Len(fr) ELSE st.front_index
    IN  crowding_distance(Take(obj, fr[last]))

\* A selection that takes the candidates in population order.
SelectionIdentity(obj, fr, n) == [k \in 1..n |-> k]

\* A selection that fills every place with the first member of the best front.
SelectionBestOnly(obj, fr, n) == [k \in 1..n |-> fr[1][1]]

\* selected_parents at "new_population = population[selected_parents]"
Selection(obj, fr, n) ==
    LET st == WholeFronts(fr, n, 0, <<>>)
    IN  st.selected_parents \o CrowdingFill(obj, fr, n, st)

\* The passes of "for i in range(0, len(population), 2)"
NumPairs(n) == (n + 1) \div 2

\* A crossover that copies the partner's gene into the first row of a pair and
\* leaves the second row as it was.
crossover_one_way(pop, masks) ==
    [i \in 1..Len(pop) |->
        [j \in 1..Len(pop[i]) |->
            IF j \in masks[(i + 1) \div 2] /\ i % 2 = 1
            THEN pop[i + 1][j]
            ELSE pop[i][j]]]

\* crossover(population): masks[p] is the set of genes whose coin came up below
\* 0.5 in pass p (empty when the pass was skipped). Every pass has both rows.
crossover_uniform(pop, masks) ==
    [i \in 1..Len(pop) |->
        [j \in 1..Len(pop[i]) |->
            IF j \in masks[(i + 1) \div 2]
            THEN pop[IF i % 2 = 1 THEN i + 1 ELSE i - 1][j]
            ELSE pop[i][j]]]

\* The pass of crossover(population) that reads new_population[i + 1, j] past the
\* last row.
CrossoverOutOfRange(n, masks) == n % 2 = 1 /\ masks[NumPairs(n)] # {}

\* mutation(population): draws maps the cells <<i, j>> whose coin came up below
\* mutation_prob to the value drawn for them.
mutation(pop, draws) ==
    [i \in 1..Len(pop) |->
        [j \in 1..Len(pop[i]) |->
            IF <<i, j>> \in DOMAIN draws THEN draws[<<i, j>>] ELSE pop[i][j]]]

\* np.argmin(objectives[:, 0] + objectives[:, 1]): the first index of the minimum
ArgMinSum(obj) ==
    CHOOSE i \in 1..Len(obj) :
        /\ \A j \in 1..Len(obj) : obj[i][1] + obj[i][2] <= obj[j][1] + obj[j][2]
        /\ \A j \in 1..(i - 1) : obj[j][1] + obj[j][2] > obj[i][1] + obj[i][2]

\* Sets of at most k elements of S
RECURSIVE UpTo(_, _)
UpTo(S, k) ==
    IF k = 0 THEN {{}}
    ELSE LET prev == UpTo(S, k - 1)
         IN  prev \cup {A \cup {c} : A \in prev, c \in S}

\* Assignments of a mask to every pass with at most k non-empty masks
MaskChoices(n, k) ==
    {[p \in 1..NumPairs(n) |-> IF p \in on THEN mk[p] ELSE {}] :
        on \in UpTo(1..NumPairs(n), k),
        mk \in [1..NumPairs(n) -> (SUBSET (1..NumWeeks)) \ {{}}]}

\* ------------------------------------------ crossover(population), called alone
\* Numbers of rows of a population with an even number of rows
EvenRows == {n \in 1..(MaxPop + 1) : n % 2 = 0}

\* crossover(population) about to be called on a population of rows of NumWeeks
\* genes.
CrossoverInit ==
    /\ pc = "crossover"
    /\ Globals
    /\ pop_size \in EvenRows
    /\ population \in SeqOf(SeqOf(Genes, NumWeeks), pop_size)
    /\ max_generations = 0 /\ gen = 0
    /\ objectives = <<>>
    /\ t = 0 /\ s = <<>> /\ env = <<>> /\ spill = <<>> /\ supply = <<>>
    /\ candidate = <<>> /\ inflow_t = 0 /\ evap_t = 0
    /\ result = NoResult /\ threshold = 0 /\ fronts = <<>> /\ dom = <<>>
    /\ crowding = <<>> /\ frames = <<>>
    /\ DraftIdle

\* new_population = crossover(population): every pass draws its coins; a pass that
\* is not crossed has the empty mask.
CallCrossover ==
    /\ pc = "crossover"
    /\ \E masks \in [1..NumPairs(pop_size) -> SUBSET (1..NumWeeks)] :
         result' = ("crossover" :> crossover_uniform(population, masks))
    /\ pc' = "crossover_done"
    /\ UNCHANGED <<frames, simVars, demand, threshold, sortVars, optVars>>

SpecCrossover == CrossoverInit /\ [][CallCrossover]_vars

\* Everything up to "for gen in range(max_generations)"
DraftInit ==
    /\ pc = "draft"
    /\ Globals
    /\ pop_size \in 2..MaxPop
    /\ max_generations \in 1..MaxGen
    /\ gen = 0
    /\ population \in SeqOf(SeqOf(Genes, NumWeeks), pop_size)
    /\ objectives = <<>>
    /\ t = 0 /\ s = <<>> /\ env = <<>> /\ spill = <<>> /\ supply = <<>>
    /\ candidate = <<>> /\ inflow_t = 0 /\ evap_t = 0
    /\ result = NoResult /\ threshold = 0 /\ fronts = <<>> /\ dom = <<>>
    /\ crowding = <<>> /\ frames = <<>>
    /\ DraftIdle

\* One pass of the generation loop: evaluate, sort, select, crossover, mutation,
\* record the best.
DraftGeneration ==
    /\ pc = "draft"
    /\ gen < max_generations
    /\ objectives' = fit_func(pop_size, population)
    /\ fronts' = non_dominated_sort(objectives')
    /\ crowding' = LastCrowding(objectives', fronts', pop_size)
    /\ selected_parents' = Selection(objectives', fronts', pop_size)
    /\ best_objectives' = Append(best_objectives, objectives'[ArgMinSum(objectives')])
    /\ \E masks \in MaskChoices(pop_size, MaxVariations - variations) :
         LET crossed == Cardinality({p \in 1..NumPairs(pop_size) : masks[p] # {}})
         IN  \E cells \in UpTo((1..pop_size) \X (1..T),
                               MaxVariations - variations - crossed) :
               \E draws \in [cells -> MutationDraws] :
                 /\ ~CrossoverOutOfRange(pop_size, masks)
                 /\ population' =
                      mutation(crossover_uniform(Take(population, selected_parents'),
                                                 masks), draws)
                 /\ variations' = variations + crossed + Cardinality(cells)
    /\ best_solutions' = Append(best_solutions, population'[ArgMinSum(objectives')])
    /\ gen' = gen + 1
    /\ UNCHANGED <<frames, pc, simVars, objVars, dom, s_0, pop_size, max_generations>>

\* The same pass ending in the IndexError of crossover(population) on a
\* population with an odd number of rows.
DraftIndexError ==
    /\ pc = "draft"
    /\ gen < max_generations
    /\ variations < MaxVariations
    /\ pop_size % 2 = 1
    /\ objectives' = fit_func(pop_size, population)
    /\ fronts' = non_dominated_sort(objectives')
    /\ crowding' = LastCrowding(objectives', fronts', pop_size)
    /\ selected_parents' = Selection(objectives', fronts', pop_size)
    /\ variations' = variations + 1
    /\ pc' = "IndexError"
    /\ UNCHANGED <<frames, simVars, objVars, dom, s_0, pop_size, max_generations, gen,
                   population, best_solutions, best_objectives>>

\* return np.array(best_solutions), np.array(best_objectives)
DraftReturn ==
    /\ pc = "draft"
    /\ gen = max_generations
    /\ pc' = "returned"
    /\ UNCHANGED <<frames, simVars, objVars, sortVars, optVars>>

DraftNext == DraftGeneration \/ DraftIndexError \/ DraftReturn

SpecDraft == DraftInit /\ [][DraftNext]_vars

\* The draft loop run for one generation with crossover_prob = 0 and
\* mutation_prob = 0: "np.random.rand() < 0" never holds, so no pair is crossed and
\* no gene is mutated (no variation event is left to happen).
RegressionInit ==
    /\ pc = "draft"
    /\ Globals
    /\ pop_size = RegressionPop
    /\ max_generations = 1
    /\ gen = 0
    /\ population \in SeqOf(SeqOf(Genes, NumWeeks), pop_size)
    /\ objectives = <<>>
    /\ t = 0 /\ s = <<>> /\ env = <<>> /\ spill = <<>> /\ supply = <<>>
    /\ candidate = <<>> /\ inflow_t = 0 /\ evap_t = 0
    /\ result = NoResult /\ threshold = 0 /\ fronts = <<>> /\ dom = <<>>
    /\ crowding = <<>> /\ frames = <<>>
    /\ selected_parents = <<>> /\ best_solutions = <<>> /\ best_objectives = <<>>
    /\ variations = MaxVariations

RegressionNext == DraftGeneration \/ DraftReturn

SpecRegression == RegressionInit /\ [][RegressionNext]_vars

\* ------------------------------------------------------ res_sim: claims
SimRunning == pc \in {"sim", "sim_done"}

\* Available water of the iteration executed last (the code's index t-1).
AvailableLast == s[t] + inflow_t - evap_t

\* C1: for valid inputs every entry of the storage array lies in [0, s_max],
\* after any number of simulated steps and in the returned array.
C1_StorageWithinCapacity ==
    SimRunning => \A i \in 1..T+1 : 0 <= s[i] /\ s[i] <= s_max

\* C1 witness: a returned two-step run in which the spillway acted and left the
\* reservoir full, and a later step drew it down again.
C1_Witness ==
    /\ pc = "sim_done" /\ T = 2
    /\ spill[1] > 0 /\ s[2] = s_max /\ s[3] < s_max

\* C2: at every executed step spill >= 0, realized supply >= 0 and realized
\* supply <= the candidate supply that was passed in.
C2_SupplyAndSpillBounds ==
    SimRunning =>
        \A i \in 1..t : /\ spill[i] >= 0
                        /\ supply[i] >= 0
                        /\ supply[i] <= candidate[i]

\* C2 witness: a returned run where one request was cut to a positive amount and
\* another step spilled.
C2_Witness ==
    /\ pc = "sim_done"
    /\ \E i \in 1..T : 0 < supply[i] /\ supply[i] < candidate[i]
    /\ \E i \in 1..T : spill[i] > 0

\* C3: env[t] is never negative, and whenever the available water
\* s[t]+inflow[t]-evap[t] is 0 or negative both env[t] and the realized supply[t]
\* are exactly 0.
C3_EnvNonNegativeZeroWhenDry ==
    SimRunning =>
        /\ \A i \in 1..T : env[i] >= 0
        /\ (t >= 1 /\ AvailableLast <= 0) => (env[t] = 0 /\ supply[t] = 0)

\* ------------------------------------------- objective functions: claims
\* Steps at which the supply falls short of the demand.
Shortfalls == {i \in 1..T : supply[i] < demand[i]}

Deficit2(i) == IF demand[i] > supply[i]
               THEN (demand[i] - supply[i]) * (demand[i] - supply[i]) ELSE 0

\* The mean of max(demand[t]-supply[t], 0)^2 with the properties that follow.
IsSquaredDeficit(v) ==
    /\ v.den = T
    /\ v.num = SumSeq([i \in 1..T |-> Deficit2(i)])
    /\ v.num >= 0
    /\ (v.num = 0 <=> Shortfalls = {})

\* C9: both definitions of SD_func return the mean over time steps of
\* max(demand[t]-supply[t], 0)^2, so SD >= 0 and SD = 0 iff supply[t] >= demand[t]
\* for all t (oversupply contributes nothing).
C9_SquaredDeficit ==
    pc = "obj" =>
        /\ "SD_func_loop" \in DOMAIN result => IsSquaredDeficit(result["SD_func_loop"])
        /\ "SD_func" \in DOMAIN result => IsSquaredDeficit(result["SD_func"])

\* C10: for T >= 1, reliability equals the fraction of steps with
\* supply[t] < demand[t], lies in [0, 1], and is 0 iff supply[t] >= demand[t]
\* for all t.
C10_Reliability ==
    (pc = "obj" /\ "reliability" \in DOMAIN result) =>
        LET r == result["reliability"]
        IN  /\ r.den = T /\ T >= 1
            /\ r.num = Cardinality(Shortfalls)
            /\ 0 <= r.num /\ r.num <= r.den
            /\ (r.num = 0 <=> \A i \in 1..T : supply[i] >= demand[i])

\* C10 witness: reliability was called on a two-step series with one failure
\* and one step whose demand is met exactly.
C10_Witness ==
    /\ pc = "obj" /\ "reliability" \in DOMAIN result /\ T = 2
    /\ Cardinality(Shortfalls) = 1
    /\ \E i \in 1..T : supply[i] = demand[i]

\* ------------------------------------------------- sort, dominance: claims
\* How often candidate k occurs in the returned fronts.
Occurrences(k) ==
    Cardinality({fp \in {<<f, p>> : f \in 1..Len(fronts), p \in 1..MaxN + 1} :
                    fp[2] <= Len(fronts[fp[1]]) /\ fronts[fp[1]][fp[2]] = k})

\* C5: for every non-empty set of objective vectors the fronts returned by
\* non_dominated_sort are a partition of the candidate indices (each candidate in
\* exactly one front, once), front 0 is non-empty, and some candidate has
\* domination count 0.
C5_FrontsPartition ==
    pc = "sort_done" =>
        /\ \A k \in 1..Len(objectives) : Occurrences(k) = 1
        /\ \A f \in 1..Len(fronts) :
              /\ Len(fronts[f]) <= Len(objectives)
              /\ \A p \in 1..Len(fronts[f]) : fronts[f][p] \in 1..Len(objectives)
        /\ Len(fronts) >= 1 /\ Len(fronts[1]) >= 1
        /\ \E k \in 1..Len(objectives) : domination_count(objectives)[k] = 0

\* C5 witness: three candidates sorted into two fronts, the second one holding a
\* candidate that is dominated by an earlier and by a later candidate.
C5_Witness ==
    /\ pc = "sort_done" /\ Len(objectives) = 3 /\ Len(fronts) = 2
    /\ domination_count(objectives)[2] = 2

\* C6: dominates is irreflexive and asymmetric: no vector dominates itself, and
\* if A dominates B then B does not dominate A.
C6_DominanceStrict ==
    pc = "dom_done" => (~dom.aa /\ (dom.ab => ~dom.ba))

\* C6 witness: a pair was compared in which the first vector dominates the second
\* with one objective equal.
C6_Witness ==
    /\ pc = "dom_done" /\ dom.ab
    /\ \E k \in 1..2 : dom.a[k] = dom.b[k]

\* ------------------------------------------------------- optimizers: claims
\* C4: the optimizer loop always completes max_generations iterations and
\* returns; the generation counter is the only way the run ends (no early stop,
\* no abort part-way).
C4_EndsByGenerationCounter ==
    /\ pc \in {"gen_opt", "draft", "returned"}
    /\ pc = "returned" => gen = max_generations

\* C7: after initialization and after any number of generations every gene of
\* every candidate in the population lies within the gene range used at
\* initialization, [0, 1].
C7_GenesWithinRange ==
    \A i \in 1..Len(population) :
        \A j \in 1..Len(population[i]) :
            GeneLow <= population[i][j] /\ population[i][j] <= GeneHigh

\* C8: the population has pop_size candidates of T genes each at the start of
\* every generation and when it is returned, for every pop_size.
C8_PopulationSizeFixed ==
    pc \in {"gen_opt", "draft", "returned"} =>
        /\ Len(population) = pop_size
        /\ \A i \in 1..Len(population) : Len(population[i]) = T


\* --------------------------------------------------------- MSV_func: claims
\* max(s_min - storage, 0) of the samples idx of the trajectory
Violations(idx) == SumSeq([k \in 1..Len(idx) |->
                      IF threshold > s[idx[k]] THEN threshold - s[idx[k]] ELSE 0])

\* The mean of max(s_min - storage[t], 0) over the samples idx, with the properties
\* that follow from it.
IsMeanViolation(v, idx) ==
    /\ v.den = Len(idx)
    /\ v.num = Violations(idx)
    /\ v.num >= 0
    /\ (v.num = 0 <=> \A k \in 1..Len(idx) : s[idx[k]] >= threshold)

\* C11: MSV_func returns the mean of max(s_min - storage[t], 0) over the samples it
\* is given, so MSV >= 0 and MSV = 0 iff no counted storage is below s_min; and
\* the two optimizer variants (fit_func with s[:-1], auto_optim with the full s)
\* evaluate one trajectory to the same MSV.
C11_MeanStorageViolation ==
    pc = "msv" =>
        /\ "fit_func" \in DOMAIN result =>
               IsMeanViolation(result["fit_func"], [k \in 1..T |-> k])
        /\ "auto_optim" \in DOMAIN result =>
               IsMeanViolation(result["auto_optim"], [k \in 1..(T + 1) |-> k])
        /\ DOMAIN result = {"fit_func", "auto_optim"} =>
               result["fit_func"].num * result["auto_optim"].den
                   = result["auto_optim"].num * result["fit_func"].den

\* ------------------------------------------------------ auto_optim: claims
\* The scenario's run is over: the candidate supply was the demand.
ScenarioDone == pc = "auto_done" /\ candidate = DemandData

\* C12 as stated: in the end-to-end scenario s[1] = 79, s[2] = 80, the realized
\* supply equals the demand in every week, and reliability = 0 and squared
\* deficit = 0.
C12_ScenarioAllDemandMet ==
    ScenarioDone =>
        /\ s[2] = 79 /\ s[3] = 80
        /\ supply = demand
        /\ result.REL.num = 0
        /\ result.SD.num = 0

\* C12 amended: in the end-to-end scenario s[1] = 79, s[2] = 80, the realized supply
\* equals the demand in the first seven weeks and is 7 of the 26 demanded in the
\* last, so reliability = 1/8 and squared deficit = 19^2 / 8.
C12_ScenarioLastWeekShort ==
    ScenarioDone =>
        /\ s[2] = 79 /\ s[3] = 80
        /\ \A i \in 1..7 : supply[i] = demand[i]
        /\ supply[8] = 7 /\ demand[8] = 26
        /\ result.REL = [num |-> 1, den |-> 8]
        /\ result.SD = [num |-> 19 * 19, den |-> 8]

\* C12 witness: the scenario has run to its end, the reservoir empty.
C12_Witness == ScenarioDone /\ t = 8 /\ s[9] = 0

\* ------------------------------------------------------ draft loop: claims
\* A pass of the draft loop in which no crossover coin and no mutation coin came up
\* (what crossover and mutation do with both probabilities 0).
NoVariationPass == pc = "draft" /\ gen' = gen + 1 /\ variations' = variations

\* seq lists every index 1..n exactly once
IsPermutation(seq, n) ==
    /\ Len(seq) = n
    /\ \A k \in 1..n : Cardinality({r \in 1..n : seq[r] = k}) = 1

\* C13 as stated: one generation of the draft optimizer with population size 4 and
\* no crossover and no mutation leaves the population unchanged row for row.
C13_RegressionRowForRow ==
    [][(NoVariationPass /\ pop_size = RegressionPop /\ max_generations = 1)
           => population' = population]_vars

\* C13 amended: a generation without crossover and mutation leaves the population
\* with the same rows, reordered by front: the new population is the old one
\* indexed by selected_parents, which lists every index exactly once.
C13_RegressionSameRows ==
    [][NoVariationPass
           => /\ IsPermutation(selected_parents', pop_size)
              /\ population' = Take(population, selected_parents')]_vars

\* C13 witness: the regression scenario has run and the selection reordered the rows.
C13_Witness ==
    /\ pc = "draft" /\ gen = 1 /\ max_generations = 1 /\ pop_size >= 4
    /\ selected_parents # [k \in 1..pop_size |-> k]
    /\ IsPermutation(selected_parents, pop_size)

\* C14: every (genes, objective vector) pair the optimizers report is consistent:
\* the objective vector is the evaluation of the genes reported with it, for the
\* (population, objectives) pair gen_opt returns and for every
\* (best_solutions[g], best_objectives[g]) pair of the draft loop.
C14_ReportedPairsConsistent ==
    /\ (pc = "returned" /\ best_solutions = <<>>) =>
           /\ Len(objectives) = Len(population)
           /\ \A i \in 1..Len(population) : objectives[i] = Evaluate(population[i])
    /\ \A g \in 1..Len(best_solutions) :
           best_objectives[g] = Evaluate(best_solutions[g])

\* ------------------------------------------------- res_sim: frame, claims
\* C15: res_sim is pure with respect to its arguments: after the call the caller's
\* candidate supply sequence holds the values it held before the call (the realized
\* supply being a separate result), in a direct call and for auto_optim's vars.
C15_CallerSupplyUnchanged ==
    pc \in {"sim_done", "auto_done"} => supply = candidate

\* ------------------------------------------------ crowding distance: claims
\* The objective vectors form a front: none of them dominates another.
IsFront(obj) ==
    \A i \in 1..Len(obj), j \in 1..Len(obj) : ~dominates(obj[i], obj[j])

\* Member i is the minimum or the maximum of the array in objective k.
IsExtreme(obj, i, k) ==
    \/ \A j \in 1..Len(obj) : obj[i][k] <= obj[j][k]
    \/ \A j \in 1..Len(obj) : obj[i][k] >= obj[j][k]

\* C16: for every front with at least one member, crowding_distance gives
\* infinite distance to each member that is the minimum or the maximum of the
\* front in some objective, whatever the other objective (never NaN, never finite).
C16_ExtremesInfinite ==
    (pc = "crowding_done" /\ IsFront(objectives)) =>
        \A i \in 1..Len(objectives) :
            (\E k \in 1..2 : IsExtreme(objectives, i, k)) => crowding.d[i].kind = "inf"

\* ------------------------------------------- res_sim: water balance, claims
\* Water left for the supply in the iteration executed last (the code's b).
RemainingLast == AvailableLast - env[t]

\* Water left in the reservoir before the spillway in that iteration (the code's c).
BeforeSpillLast == RemainingLast - supply[t]

\* C17: res_sim's storage has length T+1 with s[0] = s_0, env, spill and supply
\* have length T, and at every step s[t+1] = s[t] + inflow[t] - evap[t] - env[t]
\* - spill[t] - supply[t] with the returned env, spill and realized supply.
C17_MassBalance ==
    SimRunning =>
        /\ Len(s) = T + 1 /\ s[1] = s_0
        /\ Len(env) = T /\ Len(spill) = T /\ Len(supply) = T
        /\ t >= 1 => s[t+1] = s[t] + inflow_t - evap_t - env[t] - spill[t] - supply[t]

\* C17 witness: a returned two-step run that spilled in its first step and whose
\* last step had inflow, evaporation, environmental flow and supply all positive.
C17_Witness ==
    /\ pc = "sim_done" /\ T = 2 /\ spill[1] > 0
    /\ inflow_t > 0 /\ evap_t > 0 /\ env[2] > 0 /\ supply[2] > 0

\* C18: the environmental flow has priority over the supply: at every executed
\* step the realized supply is positive only if env[t] = env_min, and it is 0
\* whenever env[t] < env_min.
C18_EnvBeforeSupply ==
    SimRunning =>
        \A i \in 1..t : /\ supply[i] > 0 => env[i] = env_min
                        /\ env[i] < env_min => supply[i] = 0

\* C18 witness: a returned run with a step where the environmental flow fell
\* short and a requested release was refused, and a step with a release.
C18_Witness ==
    /\ pc = "sim_done"
    /\ \E i \in 1..T : env[i] < env_min /\ candidate[i] > 0 /\ supply[i] = 0
    /\ \E i \in 1..T : supply[i] > 0

\* C19: for non-negative candidate supply the realized supply[t] is
\* min(candidate[t], max(b, 0)), b = s[t] + inflow[t] - evap[t] - env[t]; the full
\* request is delivered whenever b is at least the request.
C19_SupplyClamp ==
    (SimRunning /\ t >= 1) =>
        LET b == RemainingLast
            b0 == IF b > 0 THEN b ELSE 0
        IN  /\ supply[t] = (IF candidate[t] < b0 THEN candidate[t] ELSE b0)
            /\ b >= candidate[t] => supply[t] = candidate[t]

\* C19 witness: a returned two-step run whose first request was cut and whose
\* last request was smaller than the water left and was delivered in full.
C19_Witness ==
    /\ pc = "sim_done" /\ T = 2
    /\ supply[1] < candidate[1]
    /\ 0 < candidate[2] /\ candidate[2] < RemainingLast /\ supply[2] = candidate[2]

\* C20: spill[t] = max(c - s_max, 0), c = s[t] + inflow[t] - evap[t] - env[t]
\* - supply[t]; a positive spill leaves the storage s[t+1] at s_max, and nothing is
\* spilled while the reservoir is below capacity.
C20_SpillOnlyAtCapacity ==
    SimRunning =>
        /\ t >= 1 =>
               LET c == BeforeSpillLast
               IN  spill[t] = (IF c - s_max > 0 THEN c - s_max ELSE 0)
        /\ \A i \in 1..t : /\ spill[i] > 0 => s[i+1] = s_max
                           /\ s[i+1] < s_max => spill[i] = 0

\* C20 witness: the last step of a returned run spilled and filled the reservoir, and an
\* earlier step ended below capacity without spilling.
C20_Witness ==
    /\ pc = "sim_done" /\ T = 2
    /\ spill[2] > 0 /\ s[3] = s_max
    /\ s[2] < s_max /\ spill[1] = 0

\* ------------------------------------------------ front structure: claims
\* The members of front f (fronts are numbered from 1 here: the code's index + 1).
FrontSet(f) == {fronts[f][p] : p \in 1..Len(fronts[f])}

\* The candidates that dominate candidate k.
Dominators(k) == {i \in 1..Len(objectives) : dominates(objectives[i], objectives[k])}

\* C21: front 0 is exactly the set of candidates dominated by no candidate; for
\* k > 0 each member of front k is dominated only by members of earlier fronts and
\* by at least one member of front k-1; no member of a front dominates another
\* member of the same front.
C21_FrontStructure ==
    pc = "sort_done" =>
        /\ FrontSet(1) = {k \in 1..Len(objectives) : Dominators(k) = {}}
        /\ \A f \in 2..Len(fronts) : \A k \in FrontSet(f) :
              /\ \A i \in Dominators(k) : \E g \in 1..(f - 1) : i \in FrontSet(g)
              /\ \E i \in Dominators(k) : i \in FrontSet(f - 1)
        /\ \A f \in 1..Len(fronts) : \A i \in FrontSet(f), k \in FrontSet(f) :
              ~dominates(objectives[i], objectives[k])

\* C21 witness: three fronts were returned, the member of the last one dominated
\* by a member of each earlier front and listed before one of its dominators.
C21_Witness ==
    /\ pc = "sort_done" /\ Len(fronts) = 3
    /\ \E k \in FrontSet(3) :
          /\ \E i \in FrontSet(1) : i \in Dominators(k)
          /\ \E i \in FrontSet(2) : i \in Dominators(k) /\ i > k

\* All members have the same value in objective k.
ZeroRange(obj, k) == \A i \in 1..Len(obj), j \in 1..Len(obj) : obj[i][k] = obj[j][k]

\* C22: when all members of a front have the same value in an objective, that
\* dimension contributes 0 to every interior member's distance: no division by
\* zero shows in the result, no member's distance is NaN, and a member that is
\* not set to infinity as an end of a sorted order has a finite distance.
C22_ZeroRangeContributesNothing ==
    (pc = "crowding_done" /\ IsFront(objectives)
        /\ \E k \in 1..2 : ZeroRange(objectives, k)) =>
        \A i \in 1..Len(objectives) :
            /\ crowding.d[i].kind # "nan"
            /\ crowding.d[i].kind = "inf" =>
                   (i = crowding.idx[1] \/ i = crowding.idx[Len(objectives)]
                    \/ \E k \in 1..2 : ~ZeroRange(objectives, k)
                                        /\ IsExtreme(objectives, i, k))

\* The selection step of a generation has run: objectives, fronts and
\* selected_parents are those of the generation just evaluated.
Selected == pc = "draft" /\ gen > 0

\* Number of candidates in the first f fronts
RECURSIVE FrontsSize(_)
FrontsSize(f) == IF f = 0 THEN 0 ELSE FrontsSize(f - 1) + Len(fronts[f])

FrontOf(k) == CHOOSE f \in 1..Len(fronts) : k \in FrontSet(f)

\* C28: in the draft loop selected_parents is a permutation of all the indices of
\* the population, ordered by front, and the crowding-distance fill adds no
\* candidate: the whole-front loop ends past the last front with every place taken.
C28_SelectionIsPermutation ==
    Selected =>
        /\ IsPermutation(selected_parents, pop_size)
        /\ \A a \in 1..pop_size, b \in 1..pop_size :
               a < b => FrontOf(selected_parents[a]) <= FrontOf(selected_parents[b])
        /\ LET st == WholeFronts(fronts, pop_size, 0, <<>>)
           IN  /\ st.front_index = Len(fronts)
               /\ st.selected_parents = selected_parents
               /\ CrowdingFill(objectives, fronts, pop_size, st) = <<>>

\* C28 witness: a selection has run in which the worst-ranked candidate, alone in
\* the last of several fronts, was selected last although it comes first in the
\* population.
C28_Witness ==
    /\ Selected /\ Len(fronts) >= 2
    /\ fronts[Len(fronts)] = <<1>>
    /\ selected_parents[pop_size] = 1

\* The candidates of the evaluated population with exactly c dominators
WithDominators(c) == {k \in 1..Len(objectives) : Cardinality(Dominators(k)) = c}

\* C24: parents_selection returns a pair of parents (a candidate nobody dominates
\* and a candidate exactly one other dominates) if and only if some candidate has
\* domination count exactly 1; otherwise the pass ends in the out-of-range
\* IndexError and nothing is returned.
C24_ParentsIffCountOne ==
    [][(pc = "gen_opt" /\ gen < max_generations) =>
          IF WithDominators(1)' # {}
          THEN /\ pc' = "gen_opt" /\ gen' = gen + 1
               /\ \E k \in WithDominators(0)' : population'[1] = population[k]
               /\ \E k \in WithDominators(1)' : population'[2] = population[k]
          ELSE /\ pc' = "IndexError"
               /\ population' = population /\ gen' = gen]_vars

\* C24 witness: the pass ended in the IndexError on a population with two fronts,
\* its dominated candidate having two dominators.
C24_Witness ==
    /\ pc = "IndexError" /\ best_solutions = <<>>
    /\ Len(objectives) = pop_size
    /\ WithDominators(1) = {} /\ WithDominators(2) # {}

\* C25: after crossover(parent_1, parent_2) the population holds the two parents
\* and, for each ratio q/4 with crossover point k = int(T * q / 4), child 1 =
\* parent_1[0:k] followed by parent_2[k:T] and child 2 = parent_2[0:k] followed by
\* parent_1[k:T]: both of length T, carrying at every position exactly the two
\* parents' genes of that position.
C25_SinglePointCrossover ==
    (pc \in {"gen_opt", "returned", "IndexError"} /\ gen > 0) =>
        LET parent_1 == population[1]
            parent_2 == population[2]
        IN  \A q \in 1..3 :
              LET k == CHOOSE c \in 0..T : 4 * c <= T * q /\ T * q < 4 * (c + 1)
                  child_1 == population[2 * q + 1]
                  child_2 == population[2 * q + 2]
              IN  /\ Len(child_1) = T /\ Len(child_2) = T
                  /\ \A j \in 1..T :
                        /\ child_1[j] = IF j <= k THEN parent_1[j] ELSE parent_2[j]
                        /\ child_2[j] = IF j <= k THEN parent_2[j] ELSE parent_1[j]
                        /\ \/ child_1[j] = parent_1[j] /\ child_2[j] = parent_2[j]
                           \/ child_1[j] = parent_2[j] /\ child_2[j] = parent_1[j]

\* C25 witness: a crossover has produced a child that differs from both parents.
C25_Witness ==
    /\ pc \in {"gen_opt", "returned", "IndexError"} /\ gen > 0
    /\ \E c \in 3..Len(population) :
          population[c] # population[1] /\ population[c] # population[2]

\* obj1 equals or dominates obj2
Covers(obj1, obj2) == obj1 = obj2 \/ dominates(obj1, obj2)

\* C26: selection is elitist across generations: for every non-dominated candidate
\* of the generation just evaluated, the population of the next generation holds a
\* candidate whose objective vector equals or dominates it.
C26_Elitist ==
    [][(pc \in {"draft", "gen_opt"} /\ gen' = gen + 1) =>
          \A i \in WithDominators(0)' :
              \E r \in 1..Len(population') :
                  Covers(Evaluate(population'[r]), objectives'[i])]_vars

\* C27: within one generation the objective vector fit_func stores for a candidate
\* is the one the candidate gets when evaluated alone, whatever the order in which
\* the candidates are started and however the other evaluations are interleaved
\* with its own, finished or not.
C27_EvaluationIndependent ==
    pc \in {"fit_func", "fit_done"} =>
        \A i \in 1..pop_size :
            frames[i].stage = "stored" => objectives[i] = Evaluate(population[i])

\* C27 witness: the second candidate was stored while the evaluation of the first,
\* a different row, was still inside res_sim.
C27_Witness ==
    /\ pc = "fit_func" /\ pop_size >= 2
    /\ population[1] # population[2]
    /\ frames[2].stage = "stored"
    /\ frames[1].stage = "res_sim" /\ frames[1].t > 0 /\ frames[1].t < T

\* C29: crossover(population) on a population with an even number of rows returns
\* a population of the same shape, and for every pair of rows (2i, 2i+1) and every
\* gene position j the two genes at j are the two genes the pair had at j before,
\* kept or swapped.
C29_UniformCrossoverSwaps ==
    (pc = "crossover_done" /\ Len(population) % 2 = 0) =>
        LET new_population == result["crossover"]
        IN  /\ Len(new_population) = Len(population)
            /\ \A i \in 1..Len(population) :
                  Len(new_population[i]) = Len(population[i])
            /\ \A p \in 1..(Len(population) \div 2) : \A j \in 1..Len(population[2 * p]) :
                  \/ /\ new_population[2 * p - 1][j] = population[2 * p - 1][j]
                     /\ new_population[2 * p][j] = population[2 * p][j]
                  \/ /\ new_population[2 * p - 1][j] = population[2 * p][j]
                     /\ new_population[2 * p][j] = population[2 * p - 1][j]

\* C29 witness: crossover returned a population of four rows in which both pairs
\* changed, the first pair in one gene only.
C29_Witness ==
    /\ pc = "crossover_done" /\ Len(population) = 4
    /\ result["crossover"][1] # population[1]
    /\ result["crossover"][3] # population[3]
    /\ \E j \in 1..NumWeeks : result["crossover"][1][j] = population[1][j]
                               /\ population[1][j] # population[2][j]

\* C30: res_sim is idempotent on its realized supply: called again with the supply
\* it returned as the candidate, and the same inflow, evap, s_0, s_max and env_min,
\* it returns the same storage, env, spill and supply sequences.
C30_IdempotentOnRealizedSupply ==
    pc = "rerun_done" =>
        /\ result["res_sim"].s = s
        /\ result["res_sim"].env = env
        /\ result["res_sim"].spill = spill
        /\ result["res_sim"].supply = candidate

\* C30 witness: the second call has returned in a run whose first call spilled in
\* the first week and cut the release of a later week below every value a
\* solution can request for it.
C30_Witness ==
    /\ pc = "rerun_done"
    /\ spill[1] > 0
    /\ \E i \in 1..T : /\ candidate[i] > 0
                       /\ \A c \in 1..3 : candidate[i] # Releases(i)[c]

====
